---- MODULE Spec2Model ----
(***************************************************************************)
(* Model of the ingestion core of apos-ai-chatbot:                         *)
(*   - the text chunker (chunk-processor.js: chunkText, recursiveSplit,    *)
(*     forceSplit), a pure function checked under SpecChunk;               *)
(*   - the sitemap crawler (playwright-scraper.js: PlaywrightScraper),     *)
(*     a state machine checked under Spec, its page loop with a clock      *)
(*     under SpecPace;                                                     *)
(*   - the metadata classifier, document assembly, the Weaviate client     *)
(*     and the OpenAPI processor (SpecClassify, SpecAssemble, SpecIngest,  *)
(*     SpecOpenapi);                                                       *)
(*   - the force-split loop of the chunker step by step (SpecForce);       *)
(*   - the chat server's socket sessions and export route (SpecServer).    *)
(* Strings are sequences of one-character strings.                         *)
(***************************************************************************)
EXTENDS Integers, Sequences, FiniteSets, TLC

VARIABLES
    \* ---- chunker ----
    cpc,        \* "input" before chunkText is applied, "done" after
    text,       \* the text handed to chunkText
    config,     \* the ChunkConfig handed to chunkText
    splits,     \* the raw segments (chunkText's local 'splits')
    chunks,     \* the value chunkText returned
    \* ---- crawler (one PlaywrightScraper and its single scrape() call) ----
    pc,             \* position in scrape()
    scraperConfig,  \* this.config
    sitemapStatus,  \* how the sitemap request ended
    sitemap,        \* the <loc> values fetchSitemap returned
    filtered,       \* 'urls' after the shouldScrape filter, before the limit
    urls,           \* 'urls' after the maxPages limit: the scheduled list
    idx,            \* 1-based position of the for-loop over urls
    visited,        \* this.visited
    results,        \* this.results
    warned,         \* the "Limiting to ..." warning was logged
    attempts,       \* number of scrapePage calls made
    lastBehaviour,  \* what the page of the latest scrapePage call did
    abortCause,     \* why scrape() rejected, "none" if it has not
    browserOpen,    \* the browser is launched and not closed
    \* ---- metadata classifier (extractMetadata on one page) ----
    kpc,            \* "input" before extractMetadata is applied, "done" after
    page,           \* the ScrapedPage handed to extractMetadata
    classified,     \* what extractMetadata did: threw, or the value returned
    \* ---- document assembly and the Weaviate client singleton ----
    ingestPages,    \* the pages handed to processScrapedPages
    chunkConfig,    \* the chunkConfig handed to processScrapedPages
    processed,      \* what processScrapedPages did: not run, threw, returned
    wClient,        \* WeaviateClient.client is set (not null)
    wInitialized,   \* WeaviateClient.initialized
    lastCall,       \* the latest call on the client and how it ended
    lastBatch,      \* the objects of the latest batch handed to the store
    clientCalls,    \* number of calls made on the client
    \* ---- OpenAPI processor ----
    apiSpec,        \* the parsed specification behind the source
    apiRuns,        \* number of processOpenAPISpec calls made on the source
    apiResult,      \* what the latest processOpenAPISpec call did
    apiPrevious,    \* what the call before it did
    \* ---- chunkText with the forceSplit loop taken step by step ----
    fpc,            \* "call", "forcing" (inside forceSplit's loop), "returned"
    fText,          \* the text handed to chunkText
    fConfig,        \* the configuration handed to chunkText
    fPart,          \* the text handed to forceSplit
    fI,             \* forceSplit's loop variable i
    fWindows,       \* forceSplit's local 'chunks'
    \* ---- the page loop of scrape() with a clock ----
    ppc,            \* "ready", "fetching", "sleeping", "done"
    pLeft,          \* scheduled URLs not yet dispatched
    pDelay,         \* this.config.delayMs
    pNow,           \* the clock
    pInFlight,      \* scrapePage calls started and not returned
    pTimerAt,       \* when the rate-limiting timer was set
    pTimes,         \* the clock at each dispatch of scrapePage
    \* ---- chat server ----
    conn,           \* per socket: "new", "open", "closed"
    sessions,       \* the keys of the sessions Map
    inProgress,     \* per socket: requestInProgress of its session object
    active,         \* per socket: accepted query handlers, by await position
    lastEmit,       \* per socket: the event emitted last
    queryEvents,    \* per socket: number of 'query' events received
    filePassword,   \* FILE_PASSWORD
    mongoConnected, \* conversationCollection is set
    httpRequest,    \* the latest GET /export_conversations request
    httpResponse    \* the response to it

chunkVars == <<cpc, text, config, splits, chunks>>

crawlVars == <<pc, scraperConfig, sitemapStatus, sitemap, filtered, urls, idx,
               visited, results, warned, attempts, lastBehaviour, abortCause,
               browserOpen>>

classifyVars == <<kpc, page, classified>>

ingestVars == <<ingestPages, chunkConfig, processed, wClient, wInitialized,
                lastCall, lastBatch, clientCalls>>

openapiVars == <<apiSpec, apiRuns, apiResult, apiPrevious>>

forceVars == <<fpc, fText, fConfig, fPart, fI, fWindows>>

paceVars == <<ppc, pLeft, pDelay, pNow, pInFlight, pTimerAt, pTimes>>

serverVars == <<conn, sessions, inProgress, active, lastEmit, queryEvents,
                filePassword, mongoConnected, httpRequest, httpResponse>>

lateVars == <<forceVars, paceVars, serverVars>>

extraVars == <<classifyVars, ingestVars, openapiVars, lateVars>>

vars == <<chunkVars, crawlVars, extraVars>>

----------------------------------------------------------------------------
\* Bounds of the model
MaxTextLen == 5
MaxChunkSizeBound == 3
MaxOverlapBound == 2
MaxSitemapLen == 3
MaxPagesBound == 2
MaxHeadings == 11
MaxClientCalls == 3
MaxLoopSteps == 4
MaxClock == 5
MaxQueryEvents == 3

\* Characters
SP == " "
NL == "\n"
Chars == {"a", ".", SP, NL}

BoundedSeq(S, n) == UNION {[1..k -> S] : k \in 0..n}

----------------------------------------------------------------------------
\* JavaScript string primitives

Min(a, b) == IF a < b THEN a ELSE b

\* String.prototype.slice(from, to) with 0-based non-negative arguments
Slice(s, from, to) ==
    LET f == Min(from, Len(s))
        t == Min(to, Len(s))
    IN  IF f >= t THEN <<>> ELSE SubSeq(s, f + 1, t)

\* String.prototype.slice(-n) for n > 0: the last n characters
SliceLast(s, n) ==
    IF n >= Len(s) THEN s ELSE SubSeq(s, Len(s) - n + 1, Len(s))

IsWhitespace(c) == c \in {SP, NL}

RECURSIVE TrimStart(_)
TrimStart(s) ==
    IF s # <<>> /\ IsWhitespace(Head(s)) THEN TrimStart(Tail(s)) ELSE s

RECURSIVE TrimEnd(_)
TrimEnd(s) ==
    IF s # <<>> /\ IsWhitespace(s[Len(s)])
    THEN TrimEnd(SubSeq(s, 1, Len(s) - 1))
    ELSE s

\* String.prototype.trim()
Trim(s) == TrimEnd(TrimStart(s))

\* s.startsWith(p)
StartsWith(s, p) == Len(p) <= Len(s) /\ SubSeq(s, 1, Len(p)) = p

\* s.includes(p)
Includes(s, p) ==
    \E i \in 0..(Len(s) - Len(p)) : SubSeq(s, i + 1, i + Len(p)) = p

\* String.prototype.split(sep) for a non-empty separator: parts between
\* the non-overlapping occurrences of sep, found left to right
RECURSIVE SplitFrom(_, _, _)
SplitFrom(s, sep, cur) ==
    IF s = <<>> THEN <<cur>>
    ELSE IF StartsWith(s, sep)
         THEN <<cur>> \o SplitFrom(SubSeq(s, Len(sep) + 1, Len(s)), sep, <<>>)
         ELSE SplitFrom(Tail(s), sep, Append(cur, Head(s)))

Split(s, sep) == SplitFrom(s, sep, <<>>)

----------------------------------------------------------------------------
\* chunk-processor.js

\* CONSTANTS.CHUNKING.SEPARATORS
SEPARATORS == << <<NL, NL>>, <<NL>>, <<".", SP>>, <<SP>>, <<>> >>

RECURSIVE forceSplitFrom(_, _, _)
forceSplitFrom(t, maxSize, i) ==
    IF i < Len(t)
    THEN <<Slice(t, i, i + maxSize)>> \o forceSplitFrom(t, maxSize, i + maxSize)
    ELSE <<>>

\* forceSplit cutting windows one character too wide (they overlap)
RECURSIVE forceSplitWideFrom(_, _, _)
forceSplitWideFrom(t, maxSize, i) ==
    IF i < Len(t)
    THEN <<Slice(t, i, i + maxSize + 1)>> \o forceSplitWideFrom(t, maxSize, i + maxSize)
    ELSE <<>>

forceSplit_wide(t, maxSize) == forceSplitWideFrom(t, maxSize, 0)

forceSplit(t, maxSize) == forceSplitFrom(t, maxSize, 0)

RECURSIVE recursiveSplit(_, _, _)
RECURSIVE splitParts(_, _, _, _, _, _)

\* the loop accumulating while buffer + part fits, the separator not counted
splitParts_sepNotCounted(parts, k, separator, remainingSeparators, maxSize, st) ==
    IF k > Len(parts)
    THEN IF st.currentChunk # <<>>
         THEN Append(st.result, st.currentChunk)
         ELSE st.result
    ELSE
      LET part == parts[k]
          cur  == st.currentChunk
      IN  IF Len(cur) + Len(part) <= maxSize
          THEN splitParts(parts, k + 1, separator, remainingSeparators, maxSize,
                 [result |-> st.result,
                  currentChunk |-> cur \o (IF cur # <<>> THEN separator ELSE <<>>) \o part])
          ELSE
            LET flushed == IF cur # <<>> THEN Append(st.result, cur) ELSE st.result
            IN  IF Len(part) > maxSize
                THEN splitParts(parts, k + 1, separator, remainingSeparators, maxSize,
                       [result |-> flushed \o recursiveSplit(part, remainingSeparators, maxSize),
                        currentChunk |-> <<>>])
                ELSE splitParts(parts, k + 1, separator, remainingSeparators, maxSize,
                       [result |-> flushed, currentChunk |-> part])

\* the loop forgetting the buffer instead of flushing it on overflow
splitParts_bufferLost(parts, k, separator, remainingSeparators, maxSize, st) ==
    IF k > Len(parts)
    THEN IF st.currentChunk # <<>>
         THEN Append(st.result, st.currentChunk)
         ELSE st.result
    ELSE
      LET part == parts[k]
          cur  == st.currentChunk
      IN  IF Len(cur) + Len(part) + Len(separator) <= maxSize
          THEN splitParts(parts, k + 1, separator, remainingSeparators, maxSize,
                 [result |-> st.result,
                  currentChunk |-> cur \o (IF cur # <<>> THEN separator ELSE <<>>) \o part])
          ELSE
            IF Len(part) > maxSize
            THEN splitParts(parts, k + 1, separator, remainingSeparators, maxSize,
                   [result |-> st.result \o recursiveSplit(part, remainingSeparators, maxSize),
                    currentChunk |-> <<>>])
            ELSE splitParts(parts, k + 1, separator, remainingSeparators, maxSize,
                   [result |-> st.result, currentChunk |-> part])

\* the body of the 'for (const part of parts)' loop and the final flush;
\* k is the index of the next part, result and currentChunk the loop state
splitParts(parts, k, separator, remainingSeparators, maxSize, st) ==
    IF k > Len(parts)
    THEN IF st.currentChunk # <<>>
         THEN Append(st.result, st.currentChunk)
         ELSE st.result
    ELSE
      LET part == parts[k]
          cur  == st.currentChunk
      IN  IF Len(cur) + Len(part) + Len(separator) <= maxSize
          THEN splitParts(parts, k + 1, separator, remainingSeparators, maxSize,
                 [result |-> st.result,
                  currentChunk |-> cur \o (IF cur # <<>> THEN separator ELSE <<>>) \o part])
          ELSE
            LET flushed == IF cur # <<>> THEN Append(st.result, cur) ELSE st.result
            IN  IF Len(part) > maxSize
                THEN splitParts(parts, k + 1, separator, remainingSeparators, maxSize,
                       [result |-> flushed \o recursiveSplit(part, remainingSeparators, maxSize),
                        currentChunk |-> <<>>])
                ELSE splitParts(parts, k + 1, separator, remainingSeparators, maxSize,
                       [result |-> flushed, currentChunk |-> part])

recursiveSplit(t, separators, maxSize) ==
    IF Len(t) <= maxSize THEN <<t>>
    ELSE IF separators = <<>> \/ Head(separators) = <<>>
         THEN forceSplit(t, maxSize)
         ELSE splitParts(Split(t, Head(separators)), 1, Head(separators),
                         Tail(separators), maxSize,
                         [result |-> <<>>, currentChunk |-> <<>>])

\* String.prototype.slice(from, to) for any integers: a negative argument
\* counts from the end of the string
SliceIndex(s, n) ==
    IF n < 0 THEN (IF Len(s) + n < 0 THEN 0 ELSE Len(s) + n) ELSE Min(n, Len(s))

JsSlice(s, from, to) ==
    IF SliceIndex(s, from) >= SliceIndex(s, to) THEN <<>>
    ELSE SubSeq(s, SliceIndex(s, from) + 1, SliceIndex(s, to))

\* the text of the first forceSplit call that recursiveSplit(t, ...) makes,
\* as a one-element list, or the empty list when it makes none: a text
\* that fits returns at once, a missing or empty separator hands the text
\* to forceSplit, otherwise the parts longer than maxSize (they never pass
\* the accumulation test) go to recursiveSplit with the remaining
\* separators, in order
RECURSIVE firstForced(_, _, _)
RECURSIVE firstForcedOfParts(_, _, _, _)
firstForcedOfParts(parts, k, remainingSeparators, maxSize) ==
    IF k > Len(parts) THEN <<>>
    ELSE IF Len(parts[k]) > maxSize
              /\ firstForced(parts[k], remainingSeparators, maxSize) # <<>>
         THEN firstForced(parts[k], remainingSeparators, maxSize)
         ELSE firstForcedOfParts(parts, k + 1, remainingSeparators, maxSize)

firstForced(t, separators, maxSize) ==
    IF Len(t) <= maxSize THEN <<>>
    ELSE IF separators = <<>> \/ Head(separators) = <<>>
         THEN <<t>>
         ELSE firstForcedOfParts(Split(t, Head(separators)), 1, Tail(separators), maxSize)

\* the segments chunkText works from: none on the single-chunk path
chunkSplits(t, cfg) ==
    IF Len(t) <= cfg.maxChunkSize THEN <<>>
    ELSE recursiveSplit(t, cfg.separators, cfg.maxChunkSize)

\* chunkText numbering its chunks from 1
chunkText_oneBased(t, cfg) ==
    IF Len(t) <= cfg.maxChunkSize
    THEN << [content |-> t,
             metadata |-> [source |-> <<>>, chunkIndex |-> 0, totalChunks |-> 1]] >>
    ELSE
      LET sp == recursiveSplit(t, cfg.separators, cfg.maxChunkSize)
      IN  [i \in 1..Len(sp) |->
             [content |->
                Trim(IF i > 1 /\ cfg.overlap > 0
                     THEN SliceLast(sp[i - 1], cfg.overlap) \o <<SP>> \o sp[i]
                     ELSE sp[i]),
              metadata |-> [source |-> <<>>, chunkIndex |-> i,
                            totalChunks |-> Len(sp)]]]

\* chunkText taking the overlap from the start of the previous segment
chunkText_headOverlap(t, cfg) ==
    IF Len(t) <= cfg.maxChunkSize
    THEN << [content |-> t,
             metadata |-> [source |-> <<>>, chunkIndex |-> 0, totalChunks |-> 1]] >>
    ELSE
      LET sp == recursiveSplit(t, cfg.separators, cfg.maxChunkSize)
      IN  [i \in 1..Len(sp) |->
             [content |->
                Trim(IF i > 1 /\ cfg.overlap > 0
                     THEN Slice(sp[i - 1], 0, cfg.overlap) \o <<SP>> \o sp[i]
                     ELSE sp[i]),
              metadata |-> [source |-> <<>>, chunkIndex |-> i - 1,
                            totalChunks |-> Len(sp)]]]

\* chunkText taking one character more than the overlap from the previous
\* segment
chunkText_longOverlap(t, cfg) ==
    IF Len(t) <= cfg.maxChunkSize
    THEN << [content |-> t,
             metadata |-> [source |-> <<>>, chunkIndex |-> 0, totalChunks |-> 1]] >>
    ELSE
      LET sp == recursiveSplit(t, cfg.separators, cfg.maxChunkSize)
      IN  [i \in 1..Len(sp) |->
             [content |->
                Trim(IF i > 1 /\ cfg.overlap > 0
                     THEN SliceLast(sp[i - 1], cfg.overlap + 1) \o <<SP>> \o sp[i]
                     ELSE sp[i]),
              metadata |-> [source |-> <<>>, chunkIndex |-> i - 1,
                            totalChunks |-> Len(sp)]]]

chunkText(t, cfg) ==
    IF Len(t) <= cfg.maxChunkSize
    THEN << [content |-> t,
             metadata |-> [source |-> <<>>, chunkIndex |-> 0, totalChunks |-> 1]] >>
    ELSE
      LET sp == recursiveSplit(t, cfg.separators, cfg.maxChunkSize)
      IN  [i \in 1..Len(sp) |->
             [content |->
                Trim(IF i > 1 /\ cfg.overlap > 0
                     THEN SliceLast(sp[i - 1], cfg.overlap) \o <<SP>> \o sp[i]
                     ELSE sp[i]),
              metadata |-> [source |-> <<>>, chunkIndex |-> i - 1,
                            totalChunks |-> Len(sp)]]]

----------------------------------------------------------------------------
\* playwright-scraper.js

\* an optional configuration list: not given (undefined), or given
NoValue == [given |-> FALSE, list |-> <<>>]
Given(l) == [given |-> TRUE, list |-> l]
\* what scrapePage returns: null after a caught error, else one page
Null == <<>>

\* URLs are strings too; SCHEME stands for "https://"
SCHEME == <<"s", ":", "/", "/">>

UrlDocs   == SCHEME \o <<"d", ".", "e", "/", "g">>   \* host d.e
UrlRoot   == SCHEME \o <<"e", "/", "g">>             \* host e
UrlSearch == SCHEME \o <<"e", "/", "q">>             \* host e, path /q
UrlOther  == SCHEME \o <<"x", "e", "/", "g">>        \* host xe
UrlBad    == <<"g">>                                 \* not an absolute URL

UrlUniverse == {UrlDocs, UrlRoot, UrlSearch, UrlOther, UrlBad}

\* new URL(url) succeeds: an absolute URL with a host
RECURSIVE UpTo(_, _)
UpTo(s, c) ==
    IF s = <<>> \/ Head(s) = c THEN <<>> ELSE <<Head(s)>> \o UpTo(Tail(s), c)

URLParses(url) ==
    /\ StartsWith(url, SCHEME)
    /\ UpTo(SubSeq(url, Len(SCHEME) + 1, Len(url)), "/") # <<>>

\* new URL(url).hostname
hostname(url) == UpTo(SubSeq(url, Len(SCHEME) + 1, Len(url)), "/")

\* s.endsWith(p)
EndsWith(s, p) ==
    Len(p) <= Len(s) /\ SubSeq(s, Len(s) - Len(p) + 1, Len(s)) = p

\* shouldScrape accepting any host that merely ends with an allowed domain
shouldScrape_noDot(url, vis, cfg) ==
    IF ~URLParses(url) THEN FALSE
    ELSE IF url \in vis THEN FALSE
    ELSE IF /\ cfg.allowedDomains.given
            /\ Len(cfg.allowedDomains.list) > 0
            /\ ~\E k \in 1..Len(cfg.allowedDomains.list) :
                  \/ hostname(url) = cfg.allowedDomains.list[k]
                  \/ EndsWith(hostname(url), cfg.allowedDomains.list[k])
         THEN FALSE
    ELSE IF /\ cfg.excludePatterns.given
            /\ \E k \in 1..Len(cfg.excludePatterns.list) :
                  Includes(url, cfg.excludePatterns.list[k])
         THEN FALSE
    ELSE TRUE

shouldScrape(url, vis, cfg) ==
    IF ~URLParses(url) THEN FALSE
    ELSE IF url \in vis THEN FALSE
    ELSE IF /\ cfg.allowedDomains.given
            /\ Len(cfg.allowedDomains.list) > 0
            /\ ~\E k \in 1..Len(cfg.allowedDomains.list) :
                  \/ hostname(url) = cfg.allowedDomains.list[k]
                  \/ EndsWith(hostname(url), <<".">> \o cfg.allowedDomains.list[k])
         THEN FALSE
    ELSE IF /\ cfg.excludePatterns.given
            /\ \E k \in 1..Len(cfg.excludePatterns.list) :
                  Includes(url, cfg.excludePatterns.list[k])
         THEN FALSE
    ELSE TRUE

\* urls.filter(url => this.shouldScrape(url))
filterUrls(locs, vis, cfg) ==
    SelectSeq(locs, LAMBDA u : shouldScrape(u, vis, cfg))

\* the limit keeping one URL too many
limitUrls_offByOne(list, cfg) ==
    IF Len(list) > cfg.maxPages
    THEN [urls |-> Slice(list, 0, cfg.maxPages + 1), warned |-> TRUE]
    ELSE [urls |-> list, warned |-> FALSE]

\* 'Limit to maxPages': the list kept and whether the warning is logged
limitUrls(list, cfg) ==
    IF Len(list) > cfg.maxPages
    THEN [urls |-> Slice(list, 0, cfg.maxPages), warned |-> TRUE]
    ELSE [urls |-> list, warned |-> FALSE]

\* scrapePage: the primary-content selector candidates, in order
contentSelectors == <<".vp-doc", ".VPDoc", "main", "article">>

\* what a page can do: make an awaited call of scrapePage throw
\* (navigation failure, timeout, evaluation error), or render a document
\* in which the selectors of 'dom' match
Doms == {{}, {"main", "article"}}
PageError == [kind |-> "error", dom |-> {}]
Renders(dom) == [kind |-> "page", dom |-> dom]
PageBehaviours == {PageError} \cup {Renders(dom) : dom \in Doms}
NoBehaviour == [kind |-> "none", dom |-> {}]

\* the 'for (const selector of contentSelectors)' loop: the content of
\* the first matching region, '' when none matches
RECURSIVE extractContent(_, _)
extractContent(dom, k) ==
    IF k > Len(contentSelectors) THEN <<>>
    ELSE IF contentSelectors[k] \in dom THEN <<contentSelectors[k]>>
    ELSE extractContent(dom, k + 1)

\* scrapePage whose catch block records the URL as visited
scrapePage_marksFailed(url, behaviour, vis) ==
    IF behaviour = PageError
    THEN [result |-> Null, visited |-> vis \cup {url}]
    ELSE [result |-> <<[url |-> url, content |-> extractContent(behaviour.dom, 1)]>>,
          visited |-> vis \cup {url}]

\* scrapePage: the value returned and this.visited afterwards
scrapePage(url, behaviour, vis) ==
    IF behaviour = PageError
    THEN [result |-> Null, visited |-> vis]
    ELSE [result |-> <<[url |-> url, content |-> extractContent(behaviour.dom, 1)]>>,
          visited |-> vis \cup {url}]

\* 'if (result) this.results.push(result)'
pushResult(res, result) ==
    IF result # Null THEN Append(res, result[1]) ELSE res

----------------------------------------------------------------------------
\* chunk-processor.js: extractMetadata

\* String.prototype.toLowerCase(), on the letters the model uses in
\* upper case
LowerChar(c) ==
    CASE c = "A" -> "a"
      [] c = "P" -> "p"
      [] c = "I" -> "i"
      [] c = "V" -> "v"
      [] OTHER -> c

ToLowerCase(s) == [i \in 1..Len(s) |-> LowerChar(s[i])]

\* the substrings extractMetadata looks for
sV3        == <<"/", "v", "3", "/">>
s3x        == <<"/", "3", ".", "x", "/">>
sAstro     == <<"a", "s", "t", "r", "o">>
sVue       == <<"v", "u", "e">>
sNunjucks  == <<"n", "u", "n", "j", "u", "c", "k", "s">>
sReference == <<"/", "r", "e", "f", "e", "r", "e", "n", "c", "e", "/">>
sApi       == <<"/", "a", "p", "i", "/">>
sTutorial  == <<"/", "t", "u", "t", "o", "r", "i", "a", "l", "/">>
sMigration == <<"/", "m", "i", "g", "r", "a", "t", "i", "o", "n", "/">>

ToLowerCaseAll(hs) == [i \in 1..Len(hs) |-> ToLowerCase(hs[i])]

\* slice(0, 10): the keyword limit
KeywordLimit == 10

\* page.metadata is an object: a function from the keys it carries
HasKey(obj, key) == key \in DOMAIN obj

\* the value extractMetadata is given when it throws
NoClassification ==
    [version |-> <<>>, framework |-> <<>>, docType |-> <<>>,
     keywords |-> <<>>, section |-> <<>>]

sCore  == <<"c", "o", "r", "e">>
sGuide == <<"g", "u", "i", "d", "e">>
s4x    == <<"4", ".", "x">>
s3xVer == <<"3", ".", "x">>

detectVersion(url) ==
    IF Includes(url, sV3) \/ Includes(url, s3x) THEN s3xVer ELSE s4x

\* the framework rules with 'vue' tested before 'astro'
detectFramework_vueFirst(url, content) ==
    IF Includes(url, sVue) \/ Includes(content, sVue) THEN sVue
    ELSE IF Includes(url, sAstro) \/ Includes(content, sAstro) THEN sAstro
    ELSE IF Includes(url, sNunjucks) THEN sNunjucks
    ELSE sCore

detectFramework(url, content) ==
    IF Includes(url, sAstro) \/ Includes(content, sAstro) THEN sAstro
    ELSE IF Includes(url, sVue) \/ Includes(content, sVue) THEN sVue
    ELSE IF Includes(url, sNunjucks) THEN sNunjucks
    ELSE sCore

\* the docType rules looking at the page content as well
detectDocType_content(url, content) ==
    IF Includes(url, sReference) \/ Includes(url, sApi) \/ Includes(content, sApi)
    THEN <<"r", "e", "f", "e", "r", "e", "n", "c", "e">>
    ELSE IF Includes(url, sTutorial) THEN <<"t", "u", "t", "o", "r", "i", "a", "l">>
    ELSE IF Includes(url, sMigration) THEN <<"m", "i", "g", "r", "a", "t", "i", "o", "n">>
    ELSE sGuide

detectDocType(url, content) ==
    IF Includes(url, sReference) \/ Includes(url, sApi)
    THEN <<"r", "e", "f", "e", "r", "e", "n", "c", "e">>
    ELSE IF Includes(url, sTutorial) THEN <<"t", "u", "t", "o", "r", "i", "a", "l">>
    ELSE IF Includes(url, sMigration) THEN <<"m", "i", "g", "r", "a", "t", "i", "o", "n">>
    ELSE sGuide

\* the keywords cut to the limit before the empty headings are dropped
extractKeywords_sliceFirst(headings) ==
    ToLowerCaseAll(SelectSeq(Slice(headings, 0, KeywordLimit), LAMBDA h : Len(h) > 0))

\* headings.filter(h => h.length > 0).map(h => h.toLowerCase()).slice(0, 10)
extractKeywords(headings) ==
    Slice(ToLowerCaseAll(SelectSeq(headings, LAMBDA h : Len(h) > 0)), 0, KeywordLimit)

\* page.metadata.headings[0] || ''
extractSection(headings) ==
    IF Len(headings) >= 1 THEN headings[1] ELSE <<>>

\* extractMetadata: reading page.metadata.headings.filter of a page
\* without a headings list throws a TypeError
extractMetadata(pg) ==
    IF ~HasKey(pg.metadata, "headings")
    THEN [threw |-> TRUE, value |-> NoClassification]
    ELSE [threw |-> FALSE,
          value |-> [version |-> detectVersion(ToLowerCase(pg.url)),
                     framework |-> detectFramework(ToLowerCase(pg.url),
                                                   ToLowerCase(pg.content)),
                     docType |-> detectDocType(ToLowerCase(pg.url),
                                               ToLowerCase(pg.content)),
                     keywords |-> extractKeywords(pg.metadata.headings),
                     section |-> extractSection(pg.metadata.headings)]]

----------------------------------------------------------------------------
\* chunk-processor.js: processScrapedPages

\* { ...a, ...b }: the keys of both objects, b's value where both have one
MergeObjects(a, b) ==
    [k \in (DOMAIN a) \cup (DOMAIN b) |-> IF k \in DOMAIN b THEN b[k] ELSE a[k]]

\* chunk.metadata.section || metadata.section
sectionOf(chunk, meta) ==
    IF HasKey(chunk.metadata, "section") /\ chunk.metadata.section # <<>>
    THEN chunk.metadata.section
    ELSE meta.section

\* documents.push({...}) for one chunk of one page
makeDocument(pg, meta, chunk) ==
    [content |-> chunk.content,
     title |-> pg.title,
     url |-> pg.url,
     version |-> meta.version,
     framework |-> meta.framework,
     docType |-> meta.docType,
     keywords |-> meta.keywords,
     metadata |-> MergeObjects([section |-> sectionOf(chunk, meta),
                                chunkIndex |-> chunk.metadata.chunkIndex,
                                totalChunks |-> chunk.metadata.totalChunks],
                               pg.metadata)]

\* the inner loop: the documents of one page
documentsOfPage(pg, meta, cfg) ==
    LET cs == chunkText(pg.content, cfg)
    IN  [i \in 1..Len(cs) |-> makeDocument(pg, meta, cs[i])]

\* the outer loop from page k on; an extractMetadata that throws ends
\* processScrapedPages with that error
RECURSIVE processFrom(_, _, _, _)
processFrom(pages, k, cfg, documents) ==
    IF k > Len(pages) THEN [state |-> "returned", documents |-> documents]
    ELSE LET m == extractMetadata(pages[k])
         IN  IF m.threw THEN [state |-> "threw", documents |-> <<>>]
             ELSE processFrom(pages, k + 1, cfg,
                              documents \o documentsOfPage(pages[k], m.value, cfg))

processScrapedPages(pages, cfg) == processFrom(pages, 1, cfg, <<>>)

----------------------------------------------------------------------------
\* weaviate/client.js: WeaviateClient

\* getClient: throws unless this.client is set
getClient(client) == [raised |-> ~client]

\* the ways one initialize call can go when the client is not initialized:
\* the url argument cannot be read (no client is built), the connection
\* test rejects, createSchema rejects, or all succeed
InitializeOutcomes == {"bad_url", "connect_error", "schema_error", "ok"}

\* initialize: this.client, this.initialized, how the call ends and the
\* requests made: the connection test, then createSchema's class lookup
\* (the class exists when all succeed) and class creation (which rejects)
initialize(client, initialized, outcome) ==
    IF initialized
    THEN [client |-> client, initialized |-> TRUE, outcome |-> "returned", storeCalls |-> 0]
    ELSE CASE outcome = "bad_url" ->
                [client |-> client, initialized |-> FALSE, outcome |-> "threw",
                 storeCalls |-> 0]
           [] outcome = "connect_error" ->
                [client |-> TRUE, initialized |-> FALSE, outcome |-> "threw",
                 storeCalls |-> 1]
           [] outcome = "schema_error" ->
                [client |-> TRUE, initialized |-> FALSE, outcome |-> "threw",
                 storeCalls |-> 3]
           [] OTHER ->
                [client |-> TRUE, initialized |-> TRUE, outcome |-> "returned",
                 storeCalls |-> 2]

\* a || b on strings and lists
OrDefault(v, dflt) == IF v # <<>> THEN v ELSE dflt

\* the properties batchImport hands to withObject for one document
batchObject(doc) ==
    [content |-> doc.content,
     title |-> doc.title,
     url |-> doc.url,
     version |-> OrDefault(doc.version, s4x),
     framework |-> OrDefault(doc.framework, sCore),
     docType |-> doc.docType,
     keywords |-> OrDefault(doc.keywords, <<>>),
     section |-> IF HasKey(doc.metadata, "section")
                 THEN OrDefault(doc.metadata.section, <<>>)
                 ELSE <<>>]

\* what the store answers to one batch: every object stored, 'failed'
\* of them reported with errors, or the request rejected
SinkAnswers(n) ==
    {[kind |-> "ok", failed |-> 0], [kind |-> "threw", failed |-> 0]}
      \cup {[kind |-> "partial", failed |-> f] : f \in 1..n}

\* batchImport submitting the batch again when objects failed
batchImport_retry(client, documents, answer) ==
    IF getClient(client).raised
    THEN [outcome |-> "threw", storeCalls |-> 0, batch |-> <<>>, logged |-> 0]
    ELSE [outcome |-> IF answer.kind = "threw" THEN "threw" ELSE "returned",
          storeCalls |-> IF answer.failed > 0 THEN 2 ELSE 1,
          batch |-> [i \in 1..Len(documents) |-> batchObject(documents[i])],
          logged |-> answer.failed]

\* batchImport: how the call ends, the number of batcher.do() requests,
\* the batch submitted and the number of errors logged
batchImport(client, documents, answer) ==
    IF getClient(client).raised
    THEN [outcome |-> "threw", storeCalls |-> 0, batch |-> <<>>, logged |-> 0]
    ELSE [outcome |-> IF answer.kind = "threw" THEN "threw" ELSE "returned",
          storeCalls |-> 1,
          batch |-> [i \in 1..Len(documents) |-> batchObject(documents[i])],
          logged |-> answer.failed]

\* deleteAll: rethrows a rejected request
deleteAll(client, storeOk) ==
    IF getClient(client).raised
    THEN [outcome |-> "threw", storeCalls |-> 0]
    ELSE [outcome |-> IF storeOk THEN "returned" ELSE "threw", storeCalls |-> 1]

\* getCount: a rejected request is caught and 0 returned
getCount(client, storeOk) ==
    IF getClient(client).raised
    THEN [outcome |-> "threw", storeCalls |-> 0]
    ELSE [outcome |-> "returned", storeCalls |-> 1]

----------------------------------------------------------------------------
\* openapi-processor.js

\* path.replace(/\//g, '-'): every slash becomes a dash
replaceSlashes(path) ==
    [i \in 1..Len(path) |-> IF path[i] = "/" THEN "-" ELSE path[i]]

sInfo == <<"i", "n", "f", "o">>
sSchema == <<"s", "c", "h", "e", "m", "a">>
sGet == <<"g", "e", "t">>
sPost == <<"p", "o", "s", "t">>
sPut == <<"p", "u", "t">>
sPatch == <<"p", "a", "t", "c", "h">>
sDelete == <<"d", "e", "l", "e", "t", "e">>
sOptions == <<"o", "p", "t", "i", "o", "n", "s">>
sHead == <<"h", "e", "a", "d">>

\* the keys of a path item that are operations
OperationMethods == {sGet, sPost, sPut, sPatch, sDelete, sOptions, sHead}

\* createInfoPage: the url and the headings of the overview page
createInfoPage(source) ==
    [url |-> source \o <<"#">> \o sInfo,
     headings |-> <<"Overview", "Contact", "License">>]

\* createOperationPage
createOperationPage(path, method, source) ==
    [url |-> source \o <<"#">> \o method \o <<"-">> \o replaceSlashes(path),
     headings |-> <<"Parameters", "Request Body", "Responses">>]

\* createSchemaPage
createSchemaPage(schemaName, source) ==
    [url |-> source \o <<"#">> \o sSchema \o <<"-">> \o schemaName,
     headings |-> <<"Properties", "Allowed Values">>]

\* the inner loop over the entries of one path item from key k on
RECURSIVE operationPages(_, _, _, _)
operationPages(path, methods, k, source) ==
    IF k > Len(methods) THEN <<>>
    ELSE (IF methods[k] \in OperationMethods
          THEN <<createOperationPage(path, methods[k], source)>>
          ELSE <<>>)
         \o operationPages(path, methods, k + 1, source)

\* the loop over the entries of spec.paths from entry k on
RECURSIVE pathPages(_, _, _)
pathPages(paths, k, source) ==
    IF k > Len(paths) THEN <<>>
    ELSE operationPages(paths[k].path, paths[k].methods, 1, source)
         \o pathPages(paths, k + 1, source)

\* processOpenAPISpec once the source is fetched and parsed: the overview
\* page, the operation pages, the schema pages
specPages(spec, source) ==
    (IF spec.info THEN <<createInfoPage(source)>> ELSE <<>>)
    \o (IF spec.paths # Null THEN pathPages(spec.paths[1], 1, source) ELSE <<>>)
    \o (IF spec.schemas # Null
        THEN [i \in 1..Len(spec.schemas[1]) |-> createSchemaPage(spec.schemas[1][i], source)]
        ELSE <<>>)

\* processOpenAPISpec: a fetch that is not ok and a body that is neither
\* JSON nor YAML end the call with an error
processOpenAPISpec(spec, source, outcome) ==
    IF outcome = "ok"
    THEN [state |-> "returned", pages |-> specPages(spec, source)]
    ELSE [state |-> "threw", pages |-> <<>>]

----------------------------------------------------------------------------
\* server/src/index.js

\* the start of the 'query' listener: what it emits at once and whether it
\* goes on to process the query
onQuery_noFlagCheck(inMap, flag) ==
    IF ~inMap THEN [emit |-> "error_nosession", accepted |-> FALSE]
    ELSE [emit |-> "none", accepted |-> TRUE]

onQuery(inMap, flag) ==
    IF ~inMap THEN [emit |-> "error_nosession", accepted |-> FALSE]
    ELSE IF flag THEN [emit |-> "error_busy", accepted |-> FALSE]
    ELSE [emit |-> "none", accepted |-> TRUE]

\* requestInProgress when the listener ends, releasing it only after a
\* success
releaseFlag_successOnly(outcome) == outcome # "ok"

\* requestInProgress when the listener ends: the finally block
releaseFlag(outcome) == FALSE

\* GET /export_conversations: password is req.query.password (absent or a
\* string), configured is FILE_PASSWORD (unset or a string); the two are
\* compared with !==
exportConversations(password, configured, connected, findOk) ==
    IF password # configured THEN [status |-> 403, body |-> "Forbidden"]
    ELSE IF ~connected THEN [status |-> 500, body |-> "MongoDB not connected"]
    ELSE IF findOk THEN [status |-> 200, body |-> "csv"]
    ELSE [status |-> 500, body |-> "Export failed"]

----------------------------------------------------------------------------
\* The components that a specification does not run stay idle

IdleScraperConfig ==
    [maxPages |-> 0, allowedDomains |-> NoValue, excludePatterns |-> NoValue]

IdlePage == [url |-> <<>>, title |-> <<>>, content |-> <<>>,
             metadata |-> [headings |-> <<>>]]

ClassifyIdle ==
    /\ kpc = "idle"
    /\ page = IdlePage
    /\ classified = [threw |-> FALSE, value |-> NoClassification]

NoCall == [op |-> "none", outcome |-> "none", storeCalls |-> 0,
           sink |-> "none", failed |-> 0, logged |-> 0]

\* the client singleton as constructed
ClientConstructed ==
    /\ wClient = FALSE
    /\ wInitialized = FALSE
    /\ lastCall = NoCall
    /\ lastBatch = <<>>
    /\ clientCalls = 0

IngestIdle ==
    /\ ingestPages = <<>>
    /\ chunkConfig = [maxChunkSize |-> 1, overlap |-> 0, separators |-> <<>>]
    /\ processed = [state |-> "idle", documents |-> <<>>]
    /\ ClientConstructed

NoApiResult == [state |-> "none", pages |-> <<>>]

OpenapiIdle ==
    /\ apiSpec = [info |-> FALSE, paths |-> Null, schemas |-> Null]
    /\ apiRuns = 0
    /\ apiResult = NoApiResult
    /\ apiPrevious = NoApiResult

ForceIdle ==
    /\ fpc = "idle"
    /\ fText = <<>>
    /\ fConfig = [maxChunkSize |-> 1, overlap |-> 0, separators |-> <<>>]
    /\ fPart = <<>>
    /\ fI = 0
    /\ fWindows = <<>>

PaceIdle ==
    /\ ppc = "idle"
    /\ pLeft = 0
    /\ pDelay = 0
    /\ pNow = 0
    /\ pInFlight = 0
    /\ pTimerAt = 0
    /\ pTimes = <<>>

Sockets == {"s1", "s2"}

NoHandlers == [processing |-> 0, logSlack |-> 0, logMongo |-> 0]
NoPassword == [given |-> FALSE, value |-> <<>>]
NoResponse == [status |-> 0, body |-> "none"]

\* the server before any client connects and any request arrives
ServerStarted ==
    /\ conn = [s \in Sockets |-> "new"]
    /\ sessions = {}
    /\ inProgress = [s \in Sockets |-> FALSE]
    /\ active = [s \in Sockets |-> NoHandlers]
    /\ lastEmit = [s \in Sockets |-> "none"]
    /\ queryEvents = [s \in Sockets |-> 0]
    /\ httpRequest = NoPassword
    /\ httpResponse = NoResponse

ServerIdle ==
    /\ ServerStarted
    /\ filePassword = NoPassword
    /\ mongoConnected = FALSE

LateIdle == ForceIdle /\ PaceIdle /\ ServerIdle

ExtraIdle == ClassifyIdle /\ IngestIdle /\ OpenapiIdle /\ LateIdle

----------------------------------------------------------------------------
\* Chunker specification: the inputs are drawn in Init, ChunkText applies
\* the function

SeparatorLists == {SEPARATORS, << <<NL>> >>, << <<SP>>, <<>> >>, <<>>}

ChunkConfigs ==
    [maxChunkSize : 1..MaxChunkSizeBound,
     overlap : 0..MaxOverlapBound,
     separators : SeparatorLists]

\* the crawler before scrape() is called
CrawlIdle ==
    /\ pc = "start"
    /\ sitemapStatus = "none"
    /\ sitemap = <<>>
    /\ filtered = <<>>
    /\ urls = <<>>
    /\ idx = 1
    /\ visited = {}
    /\ results = <<>>
    /\ warned = FALSE
    /\ attempts = 0
    /\ lastBehaviour = NoBehaviour
    /\ abortCause = "none"
    /\ browserOpen = FALSE

\* the chunker when it is not run
ChunkIdle ==
    /\ cpc = "idle"
    /\ text = <<>>
    /\ config = [maxChunkSize |-> 1, overlap |-> 0, separators |-> <<>>]
    /\ splits = <<>>
    /\ chunks = <<>>

InitChunk ==
    /\ cpc = "input"
    /\ text \in BoundedSeq(Chars, MaxTextLen)
    /\ config \in ChunkConfigs
    /\ splits = <<>>
    /\ chunks = <<>>
    /\ CrawlIdle
    /\ scraperConfig = IdleScraperConfig
    /\ ExtraIdle

ChunkText ==
    /\ cpc = "input"
    /\ cpc' = "done"
    /\ splits' = chunkSplits(text, config)
    /\ chunks' = chunkText(text, config)
    /\ UNCHANGED <<text, config>>
    /\ UNCHANGED <<crawlVars, extraVars>>

NextChunk == ChunkText

SpecChunk == InitChunk /\ [][NextChunk]_vars

----------------------------------------------------------------------------
\* Crawler specification: scrapeDocumentation(config), i.e. one
\* PlaywrightScraper constructed and its scrape() called once

AllowedDomainLists ==
    {NoValue, Given(<<>>), Given(<< <<"e">> >>), Given(<< <<"d", ".", "e">> >>)}
ExcludePatternLists == {NoValue, Given(<< <<"/", "q">> >>)}

ScraperConfigs ==
    [maxPages : 0..MaxPagesBound,
     allowedDomains : AllowedDomainLists,
     excludePatterns : ExcludePatternLists]

\* bodies the sitemap request can deliver: <loc> lists, repeats allowed
SitemapBodies == BoundedSeq(UrlUniverse, MaxSitemapLen)
\* bodies of an unsuccessful HTTP response (an error page)
ErrorBodies == BoundedSeq(UrlUniverse, 1)

Init ==
    /\ ChunkIdle
    /\ CrawlIdle
    /\ scraperConfig \in ScraperConfigs
    /\ ExtraIdle

\* chromium.launch() resolves
Launch ==
    /\ pc = "start"
    /\ pc' = "launched"
    /\ browserOpen' = TRUE
    /\ UNCHANGED <<scraperConfig, sitemapStatus, sitemap, filtered, urls, idx,
                   visited, results, warned, attempts, lastBehaviour, abortCause>>
    /\ UNCHANGED <<chunkVars, extraVars>>

\* chromium.launch() rejects: outside the try, scrape() rejects
LaunchFails ==
    /\ pc = "start"
    /\ pc' = "aborted"
    /\ abortCause' = "launch"
    /\ UNCHANGED <<scraperConfig, sitemapStatus, sitemap, filtered, urls, idx,
                   visited, results, warned, attempts, lastBehaviour, browserOpen>>
    /\ UNCHANGED <<chunkVars, extraVars>>

\* fetch(sitemapUrl) rejects (network failure): the error leaves scrape()
\* through the finally block, which closes the browser
FetchSitemapFails ==
    /\ pc = "launched"
    /\ pc' = "aborted"
    /\ sitemapStatus' = "network_error"
    /\ abortCause' = "sitemap"
    /\ browserOpen' = FALSE
    /\ UNCHANGED <<scraperConfig, sitemap, filtered, urls, idx, visited,
                   results, warned, attempts, lastBehaviour>>
    /\ UNCHANGED <<chunkVars, extraVars>>

\* fetch(sitemapUrl) resolves with a response of any status; fetchSitemap
\* reads its body, then scrape() filters and limits the list
FetchSitemapResponds(status, body) ==
    /\ pc = "launched"
    /\ pc' = "crawling"
    /\ sitemapStatus' = status
    /\ sitemap' = body
    /\ filtered' = filterUrls(body, visited, scraperConfig)
    /\ urls' = limitUrls(filtered', scraperConfig).urls
    /\ warned' = limitUrls(filtered', scraperConfig).warned
    /\ idx' = 1
    /\ UNCHANGED <<scraperConfig, visited, results, attempts, lastBehaviour,
                   abortCause, browserOpen>>
    /\ UNCHANGED <<chunkVars, extraVars>>

\* one iteration of 'for (const url of urls)': scrapePage, push, delay
ScrapeNext(behaviour) ==
    /\ pc = "crawling"
    /\ idx <= Len(urls)
    /\ LET r == scrapePage(urls[idx], behaviour, visited)
       IN  /\ visited' = r.visited
           /\ results' = pushResult(results, r.result)
    /\ lastBehaviour' = behaviour
    /\ attempts' = attempts + 1
    /\ idx' = idx + 1
    /\ UNCHANGED <<pc, scraperConfig, sitemapStatus, sitemap, filtered, urls,
                   warned, abortCause, browserOpen>>
    /\ UNCHANGED <<chunkVars, extraVars>>

\* scrape() returning as soon as a page has failed
Finish_afterFailure ==
    /\ pc = "crawling"
    /\ (idx > Len(urls) \/ lastBehaviour = PageError)
    /\ pc' = "done"
    /\ browserOpen' = FALSE
    /\ UNCHANGED <<scraperConfig, sitemapStatus, sitemap, filtered, urls, idx,
                   visited, results, warned, attempts, lastBehaviour, abortCause>>
    /\ UNCHANGED <<chunkVars, extraVars>>

\* the loop is over: scrape() returns this.results, finally closes the browser
Finish ==
    /\ pc = "crawling"
    /\ idx > Len(urls)
    /\ pc' = "done"
    /\ browserOpen' = FALSE
    /\ UNCHANGED <<scraperConfig, sitemapStatus, sitemap, filtered, urls, idx,
                   visited, results, warned, attempts, lastBehaviour, abortCause>>
    /\ UNCHANGED <<chunkVars, extraVars>>

Next ==
    \/ Launch
    \/ LaunchFails
    \/ FetchSitemapFails
    \/ \E body \in SitemapBodies : FetchSitemapResponds("ok", body)
    \/ \E body \in ErrorBodies : FetchSitemapResponds("http_error", body)
    \/ \E behaviour \in PageBehaviours : ScrapeNext(behaviour)
    \/ Finish

Spec == Init /\ [][Next]_vars

\* every awaited call of scrape() settles: the launch, the sitemap request,
\* each scrapePage (page.goto has a timeout) and the delay timer
SpecLive == Spec /\ WF_vars(Next)


----------------------------------------------------------------------------
\* Classifier specification: the page is drawn in InitClassify, Classify
\* applies extractMetadata

UrlParts ==
    {<<>>, sV3, s3x, sAstro, sVue, sNunjucks, sReference, sApi, sTutorial,
     sMigration, <<"/", "A", "P", "I", "/">>, <<"V", "u", "e">>,
     <<"/", "v", "3">>, <<"/", "g">>}

UrlSamples == {a \o b : a \in UrlParts, b \in UrlParts}

ContentSamples ==
    {<<>>, sAstro, <<"A", "s", "t", "r", "o">>, sNunjucks, sApi \o sV3,
     sVue \o sAstro, sVue}

HeadingA == <<"A", "p", "i">>
HeadingB == <<"v">>
HeadingPatterns ==
    {<<HeadingA, HeadingB>>, <<<<>>, HeadingA, HeadingB>>, <<HeadingA, <<>>, HeadingA>>}

\* heading lists of every length up to MaxHeadings, repeating a pattern
HeadingLists ==
    {[i \in 1..n |-> pat[((i - 1) % Len(pat)) + 1]] :
        n \in 0..MaxHeadings, pat \in HeadingPatterns}

\* page.metadata with and without the optional headings list
PageMetadatas ==
    {[scrapedAt |-> 0]} \cup {[scrapedAt |-> 0, headings |-> h] : h \in HeadingLists}

InitClassify ==
    /\ kpc = "input"
    /\ page \in [url : UrlSamples, title : {<<"t">>}, content : ContentSamples,
                 metadata : PageMetadatas]
    /\ classified = [threw |-> FALSE, value |-> NoClassification]
    /\ ChunkIdle
    /\ CrawlIdle
    /\ scraperConfig = IdleScraperConfig
    /\ IngestIdle
    /\ OpenapiIdle
    /\ LateIdle

Classify ==
    /\ kpc = "input"
    /\ kpc' = "done"
    /\ classified' = extractMetadata(page)
    /\ UNCHANGED page
    /\ UNCHANGED <<chunkVars, crawlVars, ingestVars, openapiVars, lateVars>>

NextClassify == Classify

SpecClassify == InitClassify /\ [][NextClassify]_vars

----------------------------------------------------------------------------
\* Document assembly specification: the pages and the chunk configuration
\* are drawn in InitAssemble, ProcessPages applies processScrapedPages

PageTitle == <<"t">>

AssembleUrls == {sV3 \o sApi, sAstro}

AssembleContents ==
    {<<>>, <<"a">>, <<"a", SP, "b">>, <<"a", "b", "c", "d">>, <<SP, "a", "b", SP, "c">>}

\* page.metadata: without the headings list, with an empty one, as the
\* scrapers build it, and carrying keys named section, chunkIndex and
\* totalChunks
AssembleMetadatas ==
    {[scrapedAt |-> 0],
     [scrapedAt |-> 0, headings |-> <<>>],
     [scrapedAt |-> 0, headings |-> <<HeadingA, HeadingB>>],
     [scrapedAt |-> 0, headings |-> <<HeadingA>>, section |-> HeadingB],
     [scrapedAt |-> 0, headings |-> <<HeadingA>>, chunkIndex |-> 7],
     [scrapedAt |-> 0, headings |-> <<HeadingA>>, totalChunks |-> 0]}

AssemblePages ==
    [url : AssembleUrls, title : {PageTitle}, content : AssembleContents,
     metadata : AssembleMetadatas]

AssemblePageLists ==
    {<<>>} \cup {<<p>> : p \in AssemblePages}
           \cup {<<p, q>> : p \in AssemblePages, q \in AssemblePages}

\* chunkConfig with the separators default of chunkText filled in
AssembleConfigs ==
    {[maxChunkSize |-> 2, overlap |-> 1, separators |-> SEPARATORS],
     [maxChunkSize |-> 3, overlap |-> 0, separators |-> SEPARATORS]}

InitAssemble ==
    /\ ingestPages \in AssemblePageLists
    /\ chunkConfig \in AssembleConfigs
    /\ processed = [state |-> "idle", documents |-> <<>>]
    /\ ClientConstructed
    /\ ChunkIdle
    /\ CrawlIdle
    /\ scraperConfig = IdleScraperConfig
    /\ ClassifyIdle
    /\ OpenapiIdle
    /\ LateIdle

ProcessPages ==
    /\ processed.state = "idle"
    /\ processed' = processScrapedPages(ingestPages, chunkConfig)
    /\ UNCHANGED <<ingestPages, chunkConfig, wClient, wInitialized, lastCall,
                   lastBatch, clientCalls>>
    /\ UNCHANGED <<chunkVars, crawlVars, classifyVars, openapiVars, lateVars>>

NextAssemble == ProcessPages

SpecAssemble == InitAssemble /\ [][NextAssemble]_vars

----------------------------------------------------------------------------
\* Import specification: the pages are assembled into documents and the
\* methods of the client singleton are called in any order

IngestPages ==
    [url : {sAstro}, title : {PageTitle},
     content : {<<>>, <<"a">>, <<"a", SP, "b">>},
     metadata : {[scrapedAt |-> 0, headings |-> <<HeadingA>>]}]

IngestPageLists ==
    {<<>>} \cup {<<p>> : p \in IngestPages}
           \cup {<<p, q>> : p \in IngestPages, q \in IngestPages}

InitIngest ==
    /\ ingestPages \in IngestPageLists
    /\ chunkConfig \in AssembleConfigs
    /\ processed = [state |-> "idle", documents |-> <<>>]
    /\ ClientConstructed
    /\ ChunkIdle
    /\ CrawlIdle
    /\ scraperConfig = IdleScraperConfig
    /\ ClassifyIdle
    /\ OpenapiIdle
    /\ LateIdle

Initialize(outcome) ==
    /\ clientCalls < MaxClientCalls
    /\ LET r == initialize(wClient, wInitialized, outcome)
       IN  /\ wClient' = r.client
           /\ wInitialized' = r.initialized
           /\ lastCall' = [op |-> "initialize", outcome |-> r.outcome,
                           storeCalls |-> r.storeCalls, sink |-> "none",
                           failed |-> 0, logged |-> 0]
    /\ clientCalls' = clientCalls + 1
    /\ UNCHANGED <<ingestPages, chunkConfig, processed, lastBatch>>
    /\ UNCHANGED <<chunkVars, crawlVars, classifyVars, openapiVars, lateVars>>

BatchImport(answer) ==
    /\ clientCalls < MaxClientCalls
    /\ processed.state = "returned"
    /\ LET r == batchImport(wClient, processed.documents, answer)
       IN  /\ lastCall' = [op |-> "batchImport", outcome |-> r.outcome,
                           storeCalls |-> r.storeCalls,
                           sink |-> IF r.storeCalls = 0 THEN "none" ELSE answer.kind,
                           failed |-> IF r.storeCalls = 0 THEN 0 ELSE answer.failed,
                           logged |-> r.logged]
           /\ lastBatch' = IF r.storeCalls = 0 THEN lastBatch ELSE r.batch
    /\ clientCalls' = clientCalls + 1
    /\ UNCHANGED <<ingestPages, chunkConfig, processed, wClient, wInitialized>>
    /\ UNCHANGED <<chunkVars, crawlVars, classifyVars, openapiVars, lateVars>>

DeleteAll(storeOk) ==
    /\ clientCalls < MaxClientCalls
    /\ LET r == deleteAll(wClient, storeOk)
       IN  lastCall' = [op |-> "deleteAll", outcome |-> r.outcome,
                        storeCalls |-> r.storeCalls, sink |-> "none",
                        failed |-> 0, logged |-> 0]
    /\ clientCalls' = clientCalls + 1
    /\ UNCHANGED <<ingestPages, chunkConfig, processed, wClient, wInitialized,
                   lastBatch>>
    /\ UNCHANGED <<chunkVars, crawlVars, classifyVars, openapiVars, lateVars>>

GetCount(storeOk) ==
    /\ clientCalls < MaxClientCalls
    /\ LET r == getCount(wClient, storeOk)
       IN  lastCall' = [op |-> "getCount", outcome |-> r.outcome,
                        storeCalls |-> r.storeCalls, sink |-> "none",
                        failed |-> 0, logged |-> 0]
    /\ clientCalls' = clientCalls + 1
    /\ UNCHANGED <<ingestPages, chunkConfig, processed, wClient, wInitialized,
                   lastBatch>>
    /\ UNCHANGED <<chunkVars, crawlVars, classifyVars, openapiVars, lateVars>>

NextIngest ==
    \/ ProcessPages
    \/ \E outcome \in InitializeOutcomes : Initialize(outcome)
    \/ \E answer \in SinkAnswers(Len(processed.documents)) : BatchImport(answer)
    \/ \E storeOk \in BOOLEAN : DeleteAll(storeOk)
    \/ \E storeOk \in BOOLEAN : GetCount(storeOk)

SpecIngest == InitIngest /\ [][NextIngest]_vars

----------------------------------------------------------------------------
\* OpenAPI specification: the parsed specification is drawn in InitOpenapi,
\* ProcessSpec applies processOpenAPISpec to the same source up to twice

ApiSource == <<"s">>

\* the keys of spec.paths; an object holds each key once
ApiPaths == {<<"/", "a">>, <<"/", "a", "/", "b">>, <<"/", "a", "-", "b">>}

\* the keys of a path item, with a key that is not an operation
ApiMethodLists == {<<sGet>>, <<sGet, sPost>>, <<<<"$", "r", "e", "f">>, sDelete>>}

ApiPathItems == [path : ApiPaths, methods : ApiMethodLists]

ApiPathLists ==
    {<<>>} \cup {<<p>> : p \in ApiPathItems}
           \cup {l \in {<<p, q>> : p \in ApiPathItems, q \in ApiPathItems} :
                    l[1].path # l[2].path}

\* the keys of spec.components.schemas
ApiSchemaLists == {<<>>, <<sInfo>>, <<sInfo, <<"-", "a">>>>}

ApiSpecs ==
    [info : BOOLEAN,
     paths : {Null} \cup {<<l>> : l \in ApiPathLists},
     schemas : {Null} \cup {<<l>> : l \in ApiSchemaLists}]

InitOpenapi ==
    /\ apiSpec \in ApiSpecs
    /\ apiRuns = 0
    /\ apiResult = NoApiResult
    /\ apiPrevious = NoApiResult
    /\ ChunkIdle
    /\ CrawlIdle
    /\ scraperConfig = IdleScraperConfig
    /\ ClassifyIdle
    /\ IngestIdle
    /\ LateIdle

ProcessSpec(outcome) ==
    /\ apiRuns < 2
    /\ apiRuns' = apiRuns + 1
    /\ apiPrevious' = apiResult
    /\ apiResult' = processOpenAPISpec(apiSpec, ApiSource, outcome)
    /\ UNCHANGED apiSpec
    /\ UNCHANGED <<chunkVars, crawlVars, classifyVars, ingestVars, lateVars>>

NextOpenapi == \E outcome \in {"ok", "fetch_error", "parse_error"} : ProcessSpec(outcome)

SpecOpenapi == InitOpenapi /\ [][NextOpenapi]_vars

----------------------------------------------------------------------------
\* Force-split specification: chunkText is called with any maxChunkSize,
\* zero and negative included, and the loop of the first forceSplit call it
\* reaches is taken one iteration at a time

ForceSizes == {-1, 0, 1, 2}

ForceSeparatorLists == {SEPARATORS, << <<SP>> >>, <<>>}

InitForce ==
    /\ fpc = "call"
    /\ fText \in BoundedSeq({"a", SP}, MaxTextLen)
    /\ fConfig \in [maxChunkSize : ForceSizes, overlap : {0},
                    separators : ForceSeparatorLists]
    /\ fPart = <<>>
    /\ fI = 0
    /\ fWindows = <<>>
    /\ ChunkIdle
    /\ CrawlIdle
    /\ scraperConfig = IdleScraperConfig
    /\ ClassifyIdle
    /\ IngestIdle
    /\ OpenapiIdle
    /\ PaceIdle
    /\ ServerIdle

\* chunkText up to the first call of forceSplit, or to its return when
\* forceSplit is never called
CallChunkText ==
    /\ fpc = "call"
    /\ LET f == firstForced(fText, fConfig.separators, fConfig.maxChunkSize)
       IN  IF f = <<>>
           THEN fpc' = "returned" /\ UNCHANGED fPart
           ELSE fpc' = "forcing" /\ fPart' = f[1]
    /\ fI' = 0
    /\ fWindows' = <<>>
    /\ UNCHANGED <<fText, fConfig>>
    /\ UNCHANGED <<chunkVars, crawlVars, classifyVars, ingestVars, openapiVars,
                   paceVars, serverVars>>

\* one iteration of 'for (let i = 0; i < text.length; i += maxSize)'
ForceSplitStep ==
    /\ fpc = "forcing"
    /\ fI < Len(fPart)
    /\ Len(fWindows) < MaxLoopSteps
    /\ fWindows' = Append(fWindows, JsSlice(fPart, fI, fI + fConfig.maxChunkSize))
    /\ fI' = fI + fConfig.maxChunkSize
    /\ UNCHANGED <<fpc, fText, fConfig, fPart>>
    /\ UNCHANGED <<chunkVars, crawlVars, classifyVars, ingestVars, openapiVars,
                   paceVars, serverVars>>

\* the loop condition fails: forceSplit returns its windows
ForceSplitReturns ==
    /\ fpc = "forcing"
    /\ ~(fI < Len(fPart))
    /\ fpc' = "returned"
    /\ UNCHANGED <<fText, fConfig, fPart, fI, fWindows>>
    /\ UNCHANGED <<chunkVars, crawlVars, classifyVars, ingestVars, openapiVars,
                   paceVars, serverVars>>

NextForce == CallChunkText \/ ForceSplitStep \/ ForceSplitReturns

SpecForce == InitForce /\ [][NextForce]_vars

----------------------------------------------------------------------------
\* Page-loop specification: the loop 'for (const url of urls)' of scrape()
\* with a clock; scrapePage is awaited, then a timer of delayMs

\* the concurrency the scraper's queue is constructed with
QueueConcurrency == 3

\* setTimeout(resolve, delayMs) set at setAt may fire at the time now
timerDue_atOnce(setAt, delayMs, now) == now >= setAt

timerDue(setAt, delayMs, now) == now >= setAt + delayMs

DelaySamples == {0, 1, 2}

InitPace ==
    /\ ppc = "ready"
    /\ pLeft \in 0..MaxSitemapLen
    /\ pDelay \in DelaySamples
    /\ pNow = 0
    /\ pInFlight = 0
    /\ pTimerAt = 0
    /\ pTimes = <<>>
    /\ ChunkIdle
    /\ CrawlIdle
    /\ scraperConfig = IdleScraperConfig
    /\ ClassifyIdle
    /\ IngestIdle
    /\ OpenapiIdle
    /\ ForceIdle
    /\ ServerIdle

\* time passes
Tick ==
    /\ ppc # "done"
    /\ pNow < MaxClock
    /\ pNow' = pNow + 1
    /\ UNCHANGED <<ppc, pLeft, pDelay, pInFlight, pTimerAt, pTimes>>
    /\ UNCHANGED <<chunkVars, crawlVars, classifyVars, ingestVars, openapiVars,
                   forceVars, serverVars>>

\* the loop takes the next URL and calls scrapePage
Dispatch ==
    /\ ppc = "ready"
    /\ pLeft > 0
    /\ ppc' = "fetching"
    /\ pLeft' = pLeft - 1
    /\ pInFlight' = pInFlight + 1
    /\ pTimes' = Append(pTimes, pNow)
    /\ UNCHANGED <<pDelay, pNow, pTimerAt>>
    /\ UNCHANGED <<chunkVars, crawlVars, classifyVars, ingestVars, openapiVars,
                   forceVars, serverVars>>

\* scrapePage returns (a page or null); the rate-limiting timer is set
FetchReturns ==
    /\ ppc = "fetching"
    /\ ppc' = "sleeping"
    /\ pInFlight' = pInFlight - 1
    /\ pTimerAt' = pNow
    /\ UNCHANGED <<pLeft, pDelay, pNow, pTimes>>
    /\ UNCHANGED <<chunkVars, crawlVars, classifyVars, ingestVars, openapiVars,
                   forceVars, serverVars>>

\* the timer fires and the loop goes on
TimerFires ==
    /\ ppc = "sleeping"
    /\ timerDue(pTimerAt, pDelay, pNow)
    /\ ppc' = "ready"
    /\ UNCHANGED <<pLeft, pDelay, pNow, pInFlight, pTimerAt, pTimes>>
    /\ UNCHANGED <<chunkVars, crawlVars, classifyVars, ingestVars, openapiVars,
                   forceVars, serverVars>>

\* no URL is left: scrape() returns
LoopEnds ==
    /\ ppc = "ready"
    /\ pLeft = 0
    /\ ppc' = "done"
    /\ UNCHANGED <<pLeft, pDelay, pNow, pInFlight, pTimerAt, pTimes>>
    /\ UNCHANGED <<chunkVars, crawlVars, classifyVars, ingestVars, openapiVars,
                   forceVars, serverVars>>

NextPace == Tick \/ Dispatch \/ FetchReturns \/ TimerFires \/ LoopEnds

SpecPace == InitPace /\ [][NextPace]_vars

----------------------------------------------------------------------------
\* Server specification: clients connect, send query events, clear their
\* session and disconnect in any order; the awaited calls of an accepted
\* query settle one by one; export requests arrive at any time

PasswordSamples ==
    {NoPassword, [given |-> TRUE, value |-> <<"p">>], [given |-> TRUE, value |-> <<"q">>]}

ConfiguredPasswords == {NoPassword, [given |-> TRUE, value |-> <<"p">>]}

Running(s) == active[s].processing + active[s].logSlack + active[s].logMongo

InitServer ==
    /\ ServerStarted
    /\ filePassword \in ConfiguredPasswords
    /\ mongoConnected \in BOOLEAN
    /\ ChunkIdle
    /\ CrawlIdle
    /\ scraperConfig = IdleScraperConfig
    /\ ClassifyIdle
    /\ IngestIdle
    /\ OpenapiIdle
    /\ ForceIdle
    /\ PaceIdle

\* io.on('connection')
Connect(s) ==
    /\ conn[s] = "new"
    /\ conn' = [conn EXCEPT ![s] = "open"]
    /\ sessions' = sessions \cup {s}
    /\ inProgress' = [inProgress EXCEPT ![s] = FALSE]
    /\ lastEmit' = [lastEmit EXCEPT ![s] = "session_id"]
    /\ UNCHANGED <<active, queryEvents, filePassword, mongoConnected,
                   httpRequest, httpResponse>>
    /\ UNCHANGED <<chunkVars, crawlVars, classifyVars, ingestVars, openapiVars,
                   forceVars, paceVars>>

\* socket.on('query') up to its first await; a malformed event makes
\* sanitizeHtml(data.query) throw, so the catch and finally blocks run at
\* once
QueryEvent(s, data) ==
    /\ conn[s] = "open"
    /\ queryEvents["s1"] + queryEvents["s2"] < MaxQueryEvents
    /\ queryEvents' = [queryEvents EXCEPT ![s] = @ + 1]
    /\ LET r == onQuery(s \in sessions, inProgress[s])
       IN  IF ~r.accepted
           THEN /\ lastEmit' = [lastEmit EXCEPT ![s] = r.emit]
                /\ UNCHANGED <<inProgress, active>>
           ELSE IF data = "malformed"
           THEN /\ lastEmit' = [lastEmit EXCEPT ![s] = "error_failed"]
                /\ inProgress' = [inProgress EXCEPT ![s] = releaseFlag("fails")]
                /\ UNCHANGED active
           ELSE /\ inProgress' = [inProgress EXCEPT ![s] = TRUE]
                /\ active' = [active EXCEPT ![s].processing = @ + 1]
                /\ UNCHANGED lastEmit
    /\ UNCHANGED <<conn, sessions, filePassword, mongoConnected, httpRequest,
                   httpResponse>>
    /\ UNCHANGED <<chunkVars, crawlVars, classifyVars, ingestVars, openapiVars,
                   forceVars, paceVars>>

\* queryHandler.processQuery settles: the answer is emitted and logging
\* starts, or the catch and finally blocks run
ProcessSettles(s, outcome) ==
    /\ active[s].processing > 0
    /\ IF outcome = "ok"
       THEN /\ lastEmit' = [lastEmit EXCEPT ![s] = "answer"]
            /\ active' = [active EXCEPT ![s].processing = @ - 1, ![s].logSlack = @ + 1]
            /\ UNCHANGED inProgress
       ELSE /\ lastEmit' = [lastEmit EXCEPT ![s] = "error_failed"]
            /\ active' = [active EXCEPT ![s].processing = @ - 1]
            /\ inProgress' = [inProgress EXCEPT ![s] = releaseFlag(outcome)]
    /\ UNCHANGED <<conn, sessions, queryEvents, filePassword, mongoConnected,
                   httpRequest, httpResponse>>
    /\ UNCHANGED <<chunkVars, crawlVars, classifyVars, ingestVars, openapiVars,
                   forceVars, paceVars>>

\* logToSlack settles; it catches its own errors
LogSlackSettles(s, logged) ==
    /\ active[s].logSlack > 0
    /\ active' = [active EXCEPT ![s].logSlack = @ - 1, ![s].logMongo = @ + 1]
    /\ UNCHANGED <<conn, sessions, inProgress, lastEmit, queryEvents,
                   filePassword, mongoConnected, httpRequest, httpResponse>>
    /\ UNCHANGED <<chunkVars, crawlVars, classifyVars, ingestVars, openapiVars,
                   forceVars, paceVars>>

\* logToMongo settles; it catches its own errors; the finally block runs
LogMongoSettles(s, logged) ==
    /\ active[s].logMongo > 0
    /\ active' = [active EXCEPT ![s].logMongo = @ - 1]
    /\ inProgress' = [inProgress EXCEPT ![s] = releaseFlag("ok")]
    /\ UNCHANGED <<conn, sessions, lastEmit, queryEvents, filePassword,
                   mongoConnected, httpRequest, httpResponse>>
    /\ UNCHANGED <<chunkVars, crawlVars, classifyVars, ingestVars, openapiVars,
                   forceVars, paceVars>>

\* socket.on('clear_session'): the session is deleted and the socket
\* disconnected, which runs the disconnect listener
ClearSession(s) ==
    /\ conn[s] = "open"
    /\ sessions' = sessions \ {s}
    /\ conn' = [conn EXCEPT ![s] = "closed"]
    /\ UNCHANGED <<inProgress, active, lastEmit, queryEvents, filePassword,
                   mongoConnected, httpRequest, httpResponse>>
    /\ UNCHANGED <<chunkVars, crawlVars, classifyVars, ingestVars, openapiVars,
                   forceVars, paceVars>>

\* socket.on('disconnect'): the client went away
Disconnect(s) ==
    /\ conn[s] = "open"
    /\ sessions' = sessions \ {s}
    /\ conn' = [conn EXCEPT ![s] = "closed"]
    /\ UNCHANGED <<inProgress, active, lastEmit, queryEvents, filePassword,
                   mongoConnected, httpRequest, httpResponse>>
    /\ UNCHANGED <<chunkVars, crawlVars, classifyVars, ingestVars, openapiVars,
                   forceVars, paceVars>>

\* app.get('/export_conversations')
ExportRequest(password, findOk) ==
    /\ httpRequest' = password
    /\ httpResponse' = exportConversations(password, filePassword, mongoConnected, findOk)
    /\ UNCHANGED <<conn, sessions, inProgress, active, lastEmit, queryEvents,
                   filePassword, mongoConnected>>
    /\ UNCHANGED <<chunkVars, crawlVars, classifyVars, ingestVars, openapiVars,
                   forceVars, paceVars>>

NextServer ==
    \/ \E s \in Sockets : Connect(s)
    \/ \E s \in Sockets, data \in {"query", "malformed"} : QueryEvent(s, data)
    \/ \E s \in Sockets, outcome \in {"ok", "fails"} : ProcessSettles(s, outcome)
    \/ \E s \in Sockets, logged \in BOOLEAN : LogSlackSettles(s, logged)
    \/ \E s \in Sockets, logged \in BOOLEAN : LogMongoSettles(s, logged)
    \/ \E s \in Sockets : ClearSession(s)
    \/ \E s \in Sockets : Disconnect(s)
    \/ \E password \in PasswordSamples, findOk \in BOOLEAN : ExportRequest(password, findOk)

SpecServer == InitServer /\ [][NextServer]_vars

\* every awaited call of an accepted query settles
SpecServerLive ==
    /\ SpecServer
    /\ \A s \in Sockets :
         /\ WF_vars(\E outcome \in {"ok", "fails"} : ProcessSettles(s, outcome))
         /\ WF_vars(\E logged \in BOOLEAN : LogSlackSettles(s, logged))
         /\ WF_vars(\E logged \in BOOLEAN : LogMongoSettles(s, logged))

----------------------------------------------------------------------------
\* Properties of the chunker (SpecChunk)

ChunkDone == cpc = "done"
LongText == Len(text) > config.maxChunkSize
HasWhitespace(s) == \E i \in 1..Len(s) : IsWhitespace(s[i])

\* what chunk i (1-based, i > 1) is built from before trimming
OverlapTail(i) == SliceLast(splits[i - 1], config.overlap)
\* C2: a text no longer than maxChunkSize (the empty text included) gives
\* exactly one chunk, chunkIndex 0, totalChunks 1, content = trim(text)
C2_ShortTextOneTrimmedChunk ==
    (ChunkDone /\ ~LongText) =>
        /\ Len(chunks) = 1
        /\ chunks[1].metadata.chunkIndex = 0
        /\ chunks[1].metadata.totalChunks = 1
        /\ chunks[1].content = Trim(text)

\* C3: the chunkIndex values of the returned chunks are 0, 1, ...,
\* totalChunks-1 in order and every totalChunks is the number of chunks
C3_ContiguousChunkIndex ==
    ChunkDone =>
        \A i \in 1..Len(chunks) :
            /\ chunks[i].metadata.chunkIndex = i - 1
            /\ chunks[i].metadata.totalChunks = Len(chunks)

C3_Witness == ChunkDone /\ LongText /\ Len(chunks) >= 3

\* C4 as stated: chunk 0 is segment 0 itself; chunk i > 0 is the trimmed
\* overlap tail + space + segment i and begins with the overlap tail;
\* with overlap 0 chunk i is segment i trimmed
C4_AsStated ==
    (ChunkDone /\ LongText) =>
        /\ Len(chunks) = Len(splits)
        /\ Len(chunks) >= 1 => chunks[1].content = splits[1]
        /\ \A i \in 2..Len(chunks) :
              IF config.overlap > 0
              THEN /\ chunks[i].content = Trim(OverlapTail(i) \o <<SP>> \o splits[i])
                   /\ StartsWith(chunks[i].content, OverlapTail(i))
              ELSE chunks[i].content = Trim(splits[i])

\* C4 amended: chunk 0 is segment 0 trimmed; chunk i > 0 is the trimmed
\* overlap tail + space + segment i, which begins with the overlap tail
\* whenever that tail neither starts nor ends with whitespace; with
\* overlap 0 chunk i is segment i trimmed
C4_OverlapPrefix ==
    (ChunkDone /\ LongText) =>
        /\ Len(chunks) = Len(splits)
        /\ Len(chunks) >= 1 => chunks[1].content = Trim(splits[1])
        /\ \A i \in 2..Len(chunks) :
              IF config.overlap > 0
              THEN /\ chunks[i].content = Trim(OverlapTail(i) \o <<SP>> \o splits[i])
                   /\ (/\ ~IsWhitespace(Head(OverlapTail(i)))
                       /\ ~IsWhitespace(OverlapTail(i)[Len(OverlapTail(i))]))
                      => StartsWith(chunks[i].content, OverlapTail(i))
              ELSE chunks[i].content = Trim(splits[i])

C4_Witness ==
    /\ ChunkDone /\ LongText /\ config.overlap > 0
    /\ Len(chunks) >= 2
    /\ chunks[1].content # splits[1]
    /\ ~IsWhitespace(Head(OverlapTail(2)))
    /\ StartsWith(chunks[2].content, OverlapTail(2))

\* none of the configured (non-empty) separators occurs in the text
NoSeparatorOccurs ==
    \A k \in 1..Len(config.separators) :
        config.separators[k] # <<>> => ~Includes(text, config.separators[k])

CeilDiv(a, b) == (a + b - 1) \div b

\* window i (1-based) of the text in fixed windows of maxChunkSize
Window(i) ==
    Slice(text, (i - 1) * config.maxChunkSize, i * config.maxChunkSize)

\* C5 as stated: without separators a long text gives
\* ceil(length/maxChunkSize) chunks, the first of exactly maxChunkSize
\* characters, each later one but the last being overlap prefix, space
\* and a window of exactly maxChunkSize characters
C5_AsStated ==
    (ChunkDone /\ LongText /\ NoSeparatorOccurs) =>
        /\ Len(chunks) = CeilDiv(Len(text), config.maxChunkSize)
        /\ Len(chunks[1].content) = config.maxChunkSize
        /\ \A i \in 2..(Len(chunks) - 1) :
              chunks[i].content =
                (IF config.overlap > 0
                 THEN SliceLast(Window(i - 1), config.overlap) \o <<SP>>
                 ELSE <<>>) \o Window(i)

\* C5 amended: without separators the segments are the fixed windows
\* (ceil(length/maxChunkSize) of them, all but the last of exactly
\* maxChunkSize characters); chunk 0 is window 0 trimmed and each later
\* chunk the trimmed overlap prefix + space + window; when the text holds
\* no whitespace the trimming removes nothing
C5_ForcedWindows ==
    (ChunkDone /\ LongText /\ NoSeparatorOccurs) =>
        /\ Len(chunks) = CeilDiv(Len(text), config.maxChunkSize)
        /\ Len(splits) = Len(chunks)
        /\ \A i \in 1..Len(chunks) :
              /\ splits[i] = Window(i)
              /\ i < Len(chunks) => Len(splits[i]) = config.maxChunkSize
              /\ chunks[i].content =
                    Trim((IF i > 1 /\ config.overlap > 0
                          THEN SliceLast(Window(i - 1), config.overlap) \o <<SP>>
                          ELSE <<>>) \o Window(i))
              /\ ~HasWhitespace(text) =>
                    chunks[i].content =
                      (IF i > 1 /\ config.overlap > 0
                       THEN SliceLast(Window(i - 1), config.overlap) \o <<SP>>
                       ELSE <<>>) \o Window(i)
        /\ ~HasWhitespace(text) => Len(chunks[1].content) = config.maxChunkSize

C5_Witness ==
    /\ ChunkDone /\ LongText /\ NoSeparatorOccurs
    /\ config.separators = SEPARATORS
    /\ config.overlap > 0 /\ config.maxChunkSize >= 2
    /\ Len(chunks) >= 3
    /\ Len(chunks[2].content) = config.overlap + 1 + config.maxChunkSize

\* the parts of a list that are not empty, in order
NonEmptyParts(parts) == SelectSeq(parts, LAMBDA x : x # <<>>)

\* the parts of every segment, cut at the separator, in order
RECURSIVE PartsOfSegments(_, _)
PartsOfSegments(segs, sep) ==
    IF segs = <<>> THEN <<>>
    ELSE NonEmptyParts(Split(Head(segs), sep)) \o PartsOfSegments(Tail(segs), sep)

\* the first separator is a real one and no part of the text between its
\* occurrences is longer than maxChunkSize
PartsFit ==
    /\ config.separators # <<>>
    /\ Head(config.separators) # <<>>
    /\ \A k \in 1..Len(Split(text, Head(config.separators))) :
         Len(Split(text, Head(config.separators))[k]) <= config.maxChunkSize

C24_AtLeastOneChunk ==
    ChunkDone => Len(chunks) >= 1

RECURSIVE Flatten(_)
Flatten(segs) == IF segs = <<>> THEN <<>> ELSE Head(segs) \o Flatten(Tail(segs))

\* c is t with some occurrences of the separators removed and nothing else
\* changed
RECURSIVE RemovesOnlySeparators(_, _, _)
RemovesOnlySeparators(t, c, seps) ==
    IF t = <<>> THEN c = <<>>
    ELSE \/ /\ c # <<>>
            /\ Head(t) = Head(c)
            /\ RemovesOnlySeparators(Tail(t), Tail(c), seps)
         \/ \E k \in 1..Len(seps) :
               /\ seps[k] # <<>>
               /\ StartsWith(t, seps[k])
               /\ RemovesOnlySeparators(SubSeq(t, Len(seps[k]) + 1, Len(t)), c, seps)

\* C25: the segments of recursiveSplit read in order are the text with
\* some occurrences of the configured separators removed, and the windows
\* of forceSplit concatenate back to the text they were cut from
C25_OnlySeparatorsLost ==
    (ChunkDone /\ LongText) =>
        /\ RemovesOnlySeparators(text, Flatten(splits), config.separators)
        /\ Flatten(forceSplit(text, config.maxChunkSize)) = text

\* a separator was dropped between two segments and an oversized part was
\* cut at a fixed width
C25_Witness ==
    /\ ChunkDone /\ LongText
    /\ Len(splits) >= 3
    /\ Flatten(splits) # text
    /\ \E i \in 1..(Len(splits) - 1) :
         /\ Len(splits[i]) = config.maxChunkSize
         /\ ~HasWhitespace(splits[i] \o splits[i + 1])
         /\ Includes(text, splits[i] \o splits[i + 1])

\* C26: every chunk is at most maxChunkSize + overlap + 1 characters long
\* and the first chunk at most maxChunkSize
C26_ChunkLengthBound ==
    ChunkDone =>
        /\ \A i \in 1..Len(chunks) :
             Len(chunks[i].content) <= config.maxChunkSize + config.overlap + 1
        /\ Len(chunks) >= 1 => Len(chunks[1].content) <= config.maxChunkSize

\* a chunk that reaches the bound
C26_Witness ==
    /\ ChunkDone /\ LongText /\ config.overlap > 0
    /\ \E i \in 2..Len(chunks) :
         Len(chunks[i].content) = config.maxChunkSize + config.overlap + 1

----------------------------------------------------------------------------
\* Properties of the force-split loop (SpecForce)

\* C27: every iteration of the force-split loop advances i, and the loop
\* pushes no more windows than the text has characters
C27_ForceSplitAdvances ==
    /\ [][fWindows' # fWindows /\ fpc = "forcing" => fI' > fI]_vars
    /\ [](Len(fWindows) <= Len(fPart))

----------------------------------------------------------------------------
\* Properties of the page loop (SpecPace)

\* C21: never more than 3 page fetches are in flight, and two consecutive
\* dispatches are at least delayMs apart
C21_BoundedFetchesSpacedDispatches ==
    /\ pInFlight <= QueueConcurrency
    /\ \A i \in 2..Len(pTimes) : pTimes[i] - pTimes[i - 1] >= pDelay

\* a fetch is in flight, dispatched exactly delayMs after the one before it
C21_Witness ==
    /\ ppc = "fetching"
    /\ pInFlight = 1
    /\ pDelay = 2
    /\ Len(pTimes) = 2
    /\ pTimes[2] - pTimes[1] = pDelay

----------------------------------------------------------------------------
\* Properties of the chat server (SpecServer, SpecServerLive)

QueryArrived(s) == queryEvents'[s] = queryEvents[s] + 1

\* the query event of this step was answered with the 'Please wait' error
RejectedAsBusy(s) ==
    /\ QueryArrived(s)
    /\ active'[s] = active[s]
    /\ lastEmit'[s] = "error_busy"

\* C28: no session has more than one query in the query handler, and a
\* query event arriving while the session's requestInProgress is set is
\* answered with the 'Please wait' error and starts no processing
C28_OneQueryPerSession ==
    /\ [](\A s \in Sockets : active[s].processing <= 1)
    /\ [][\A s \in Sockets :
            (QueryArrived(s) /\ s \in sessions /\ inProgress[s]) =>
                /\ lastEmit'[s] = "error_busy"
                /\ active'[s] = active[s]]_vars

\* both sessions have a query in the query handler and a further query of
\* the first one was rejected
C28_Witness ==
    /\ active["s1"].processing = 1
    /\ active["s2"].processing = 1
    /\ queryEvents["s1"] = 2
    /\ lastEmit["s1"] = "error_busy"

\* C29: requestInProgress is set only while an accepted query of the
\* session is still running, a query is rejected as busy only then, and a
\* set flag is eventually cleared
C29_FlagReleased ==
    /\ [](\A s \in Sockets : inProgress[s] => Running(s) = 1)
    /\ [][\A s \in Sockets :
            RejectedAsBusy(s) => Running(s) >= 1]_vars
    /\ \A s \in Sockets : [](inProgress[s] => <>(~inProgress[s]))

\* after a query that failed, a later query of the same session is being
\* processed
C29_Witness ==
    /\ queryEvents["s1"] = 2
    /\ lastEmit["s1"] = "error_failed"
    /\ active["s1"].processing = 1
    /\ inProgress["s1"]

\* the request carries the configured password
CorrectPassword ==
    /\ filePassword.given
    /\ httpRequest.given
    /\ httpRequest.value = filePassword.value

\* C30: a request to /export_conversations that does not carry the
\* configured password is answered 403
C30_ExportNeedsPassword ==
    (httpResponse # NoResponse /\ ~CorrectPassword) => httpResponse.status = 403

----------------------------------------------------------------------------
\* Properties of the classifier (SpecClassify)

Classified == kpc = "done" /\ ~classified.threw
UrlHas(sub) == Includes(ToLowerCase(page.url), sub)
ContentHas(sub) == Includes(ToLowerCase(page.content), sub)

\* C11: framework is 'astro' if the lowercased URL or content contains
\* 'astro'; otherwise 'vue' if either contains 'vue'; otherwise 'nunjucks'
\* if the URL contains 'nunjucks'; otherwise 'core'
C11_FrameworkFirstMatch ==
    Classified =>
        /\ (UrlHas(sAstro) \/ ContentHas(sAstro))
              => classified.value.framework = sAstro
        /\ (~(UrlHas(sAstro) \/ ContentHas(sAstro)) /\ (UrlHas(sVue) \/ ContentHas(sVue)))
              => classified.value.framework = sVue
        /\ (~(UrlHas(sAstro) \/ ContentHas(sAstro)) /\ ~(UrlHas(sVue) \/ ContentHas(sVue))
               /\ UrlHas(sNunjucks))
              => classified.value.framework = sNunjucks
        /\ (~(UrlHas(sAstro) \/ ContentHas(sAstro)) /\ ~(UrlHas(sVue) \/ ContentHas(sVue))
               /\ ~UrlHas(sNunjucks))
              => classified.value.framework = sCore

\* a page naming both astro and vue is classified astro
C11_Witness ==
    /\ Classified
    /\ ContentHas(sVue) /\ ContentHas(sAstro) /\ UrlHas(sVue) /\ ~UrlHas(sAstro)
    /\ classified.value.framework = sAstro

\* C12: version is '3.x' exactly when the URL (compared in lower case)
\* contains a v3 path segment, '/v3/' or '/3.x/', else '4.x'; docType is
\* 'reference' for '/reference/' or '/api/', else 'tutorial' for
\* '/tutorial/', else 'migration' for '/migration/', else 'guide'; both
\* are functions of the URL alone
C12_VersionAndDocTypeFromUrl ==
    Classified =>
        /\ classified.value.version = s3xVer <=> (UrlHas(sV3) \/ UrlHas(s3x))
        /\ classified.value.version \in {s3xVer, s4x}
        /\ classified.value.docType =
             (IF UrlHas(sReference) \/ UrlHas(sApi)
                THEN SubSeq(sReference, 2, Len(sReference) - 1)
              ELSE IF UrlHas(sTutorial)
                THEN SubSeq(sTutorial, 2, Len(sTutorial) - 1)
              ELSE IF UrlHas(sMigration)
                THEN SubSeq(sMigration, 2, Len(sMigration) - 1)
              ELSE sGuide)

\* the content names /api/ and /v3/, the URL only /tutorial/
C12_Witness ==
    /\ Classified
    /\ ContentHas(sApi) /\ ContentHas(sV3)
    /\ page.url = sTutorial
    /\ classified.value.version = s4x
    /\ classified.value.docType = SubSeq(sTutorial, 2, Len(sTutorial) - 1)

\* the non-empty elements of a list, in order
RECURSIVE NonEmptyOf(_)
NonEmptyOf(hs) ==
    IF hs = <<>> THEN <<>>
    ELSE IF Head(hs) = <<>> THEN NonEmptyOf(Tail(hs))
    ELSE <<Head(hs)>> \o NonEmptyOf(Tail(hs))

\* C13: for a page with a headings list, keywords are its non-empty
\* heading texts in order, lowercased, the first 10 of them (duplicates
\* kept); section is the first heading text, '' without headings
C13_KeywordsAndSection ==
    Classified =>
        LET ne == NonEmptyOf(page.metadata.headings)
            kw == classified.value.keywords
        IN  /\ Len(kw) = Min(Len(ne), KeywordLimit)
            /\ \A i \in 1..Len(kw) : kw[i] = ToLowerCase(ne[i])
            /\ classified.value.section =
                 (IF page.metadata.headings = <<>> THEN <<>>
                  ELSE page.metadata.headings[1])

\* more than 10 non-empty headings, with repeats
C13_Witness ==
    /\ Classified
    /\ Len(page.metadata.headings) = MaxHeadings
    /\ Len(NonEmptyOf(page.metadata.headings)) > KeywordLimit
    /\ Len(classified.value.keywords) = KeywordLimit
    /\ classified.value.keywords[1] = <<"a", "p", "i">>
    /\ classified.value.keywords[1] = classified.value.keywords[3]
    /\ classified.value.section = HeadingA

\* C14: extractMetadata returns a value for every page of the ScrapedPage
\* shape, the optional metadata.headings absent included
C14_ClassifierNeverFails ==
    kpc = "done" => ~classified.threw

----------------------------------------------------------------------------
\* Properties of document assembly (SpecAssemble)

\* the (page, chunk) positions of the input, pages in input order and the
\* chunks of a page in chunk order
RECURSIVE ChunkPositions(_, _, _)
ChunkPositions(pages, cfg, k) ==
    IF k > Len(pages) THEN <<>>
    ELSE [i \in 1..Len(chunkText(pages[k].content, cfg)) |-> <<k, i>>]
           \o ChunkPositions(pages, cfg, k + 1)

\* C15: when processScrapedPages returns, its documents are one per chunk,
\* pages in input order and chunks in chunk order; each carries the chunk's
\* content, the page's title and url, the page's classification, and a
\* metadata bag whose chunkIndex and totalChunks are the chunk's position
\* fields and whose section is the page-level section (chunkText gives a
\* chunk no section), whatever the page metadata holds
C15_DocumentPerChunk ==
    processed.state = "returned" =>
        LET pos == ChunkPositions(ingestPages, chunkConfig, 1)
            docs == processed.documents
        IN  /\ Len(docs) = Len(pos)
            /\ \A d \in 1..Len(docs) :
                 LET pg == ingestPages[pos[d][1]]
                     ch == chunkText(pg.content, chunkConfig)[pos[d][2]]
                     meta == extractMetadata(pg).value
                 IN  /\ docs[d].content = ch.content
                     /\ docs[d].title = pg.title
                     /\ docs[d].url = pg.url
                     /\ docs[d].version = meta.version
                     /\ docs[d].framework = meta.framework
                     /\ docs[d].docType = meta.docType
                     /\ docs[d].keywords = meta.keywords
                     /\ docs[d].metadata.chunkIndex = ch.metadata.chunkIndex
                     /\ docs[d].metadata.totalChunks = ch.metadata.totalChunks
                     /\ docs[d].metadata.section = meta.section

----------------------------------------------------------------------------
\* Properties of the import (SpecIngest)

StoreOps == {"batchImport", "deleteAll", "getCount"}

\* C16: every object of a batch handed to the store has non-empty content
\* and its version, framework, keywords and section filled
C16_NoEmptyContentImported ==
    \A i \in 1..Len(lastBatch) :
        /\ lastBatch[i].content # <<>>
        /\ lastBatch[i].version # <<>>
        /\ lastBatch[i].framework # <<>>
        /\ HasKey(lastBatch[i], "keywords")
        /\ HasKey(lastBatch[i], "section")

\* C17: a batchImport call submits its batch to the store at most once, and
\* when the store reports some of the objects as failed the call returns
\* normally, having submitted the batch exactly once and logged the number
\* of failed objects
C17_PartialFailureNoRetry ==
    lastCall.op = "batchImport" =>
        /\ lastCall.storeCalls <= 1
        /\ lastCall.sink = "partial" =>
             /\ lastCall.outcome = "returned"
             /\ lastCall.storeCalls = 1
             /\ lastCall.failed > 0
             /\ lastCall.logged = lastCall.failed

\* a batch of two objects of which the store reported one as failed
C17_Witness ==
    /\ lastCall.op = "batchImport"
    /\ lastCall.sink = "partial"
    /\ lastCall.failed = 1
    /\ Len(lastBatch) = 2

\* C19: while the client is not initialized getClient raises, and the
\* latest batchImport, deleteAll or getCount call made no request to the
\* store
C19_UninitializedClientRaises ==
    ~wInitialized =>
        /\ getClient(wClient).raised
        /\ lastCall.op \in StoreOps => lastCall.storeCalls = 0

----------------------------------------------------------------------------
\* Properties of the OpenAPI processor (SpecOpenapi)

\* C18: the pages of one call have pairwise distinct urls, and two calls on
\* the same source that both return give the same urls in the same order
C18_SyntheticUrlsDistinct ==
    /\ \A i, j \in 1..Len(apiResult.pages) :
         i # j => apiResult.pages[i].url # apiResult.pages[j].url
    /\ (apiResult.state = "returned" /\ apiPrevious.state = "returned") =>
         apiResult.pages = apiPrevious.pages

----------------------------------------------------------------------------
\* Properties of the crawler (Spec)

Range(q) == {q[i] : i \in 1..Len(q)}
Scheduled == pc \in {"crawling", "done"}
PageAttempted == attempts' = attempts + 1

\* C1: the result sequence of a run never holds two pages with the same url
C1_NoDuplicateUrls ==
    \A i, j \in 1..Len(results) :
        i # j => results[i].url # results[j].url

\* C6: a page whose fetch or extraction throws adds nothing to the results
\* and nothing to the visited set, the loop moves on to the next scheduled
\* URL, every scheduled URL is attempted before scrape() returns, and
\* scrape() never rejects once a page has been attempted
C6_PageErrorSkipped ==
    /\ [][(PageAttempted /\ lastBehaviour' = PageError) =>
             /\ results' = results
             /\ visited' = visited
             /\ pc' = "crawling"
             /\ idx' = idx + 1]_vars
    /\ [](pc = "done" => attempts = Len(urls))
    /\ [](pc = "aborted" => attempts = 0)

\* the first scheduled page failed, the second was still fetched and emitted
C6_Witness ==
    /\ pc = "done"
    /\ attempts = 2
    /\ urls[1] \notin visited
    /\ urls[2] \in visited
    /\ lastBehaviour.kind = "page"
    /\ Len(results) = 1
    /\ results[1].url = urls[2]

\* C7: a page on which no primary-content selector matches is skipped: no
\* Page is appended for it
C7_MissingContentSkipped ==
    [][(PageAttempted /\ lastBehaviour' = Renders({})) => results' = results]_vars

\* C8: when the sitemap cannot be fetched (network failure or unsuccessful
\* HTTP response) the run aborts with the error and starts no page fetch
C8_SitemapFailureAborts ==
    sitemapStatus \in {"network_error", "http_error"} =>
        /\ pc # "done"
        /\ pc = "aborted" => abortCause = "sitemap"
        /\ attempts = 0

\* C9: a filtered list longer than maxPages is cut to its first maxPages
\* URLs with a warning; never more than maxPages pages are attempted or
\* emitted in a run
C9_MaxPagesLimit ==
    /\ Scheduled /\ Len(filtered) > scraperConfig.maxPages =>
          /\ urls = SubSeq(filtered, 1, scraperConfig.maxPages)
          /\ warned
    /\ attempts <= scraperConfig.maxPages
    /\ Len(results) <= scraperConfig.maxPages

C9_Witness ==
    /\ pc = "done"
    /\ scraperConfig.maxPages = 2
    /\ Len(filtered) = 3
    /\ warned
    /\ attempts = 2
    /\ Len(results) = 2

\* (a): with a non-empty allowedDomains list, the host is an allowed
\* domain or ends with '.' + an allowed domain
DomainAllowed(url) ==
    (scraperConfig.allowedDomains.given /\ scraperConfig.allowedDomains.list # <<>>) =>
        \E d \in Range(scraperConfig.allowedDomains.list) :
            \/ hostname(url) = d
            \/ /\ Len(hostname(url)) > Len(d)
               /\ SubSeq(hostname(url), Len(hostname(url)) - Len(d), Len(hostname(url)))
                    = <<".">> \o d

\* (b): the URL contains no configured exclude pattern
NotExcluded(url) ==
    scraperConfig.excludePatterns.given =>
        \A q \in Range(scraperConfig.excludePatterns.list) : ~Includes(url, q)

\* C10: every scheduled URL is a valid URL satisfying (a) and (b); every
\* sitemap entry that is invalid or fails (a) or (b) is not scheduled
C10_OnlyAllowedScheduled ==
    Scheduled =>
        /\ \A u \in Range(urls) :
              URLParses(u) /\ DomainAllowed(u) /\ NotExcluded(u)
        /\ \A u \in Range(sitemap) :
              (~URLParses(u) \/ ~DomainAllowed(u) \/ ~NotExcluded(u))
                  => u \notin Range(urls)
        /\ visited \subseteq Range(urls)

C10_Witness ==
    /\ pc = "done"
    /\ scraperConfig.allowedDomains = Given(<< <<"e">> >>)
    /\ scraperConfig.excludePatterns.given
    /\ sitemap = <<UrlOther, UrlSearch, UrlDocs>>
    /\ urls = <<UrlDocs>>
    /\ visited = {UrlDocs}

\* C20: no page fetch is started for a URL for which a fetch was already
\* started earlier in the run
C20_NoDispatchOfVisitedUrl ==
    [][PageAttempted => \A j \in 1..(idx - 1) : urls[j] # urls[idx]]_vars

Ended == pc \in {"done", "aborted"}

\* a scrapePage call either appends the page of the scheduled URL or, when
\* the page failed, appends nothing, and the loop goes on either way
PageStepOutcome ==
    PageAttempted =>
        /\ pc' = "crawling"
        /\ IF lastBehaviour' = PageError
           THEN results' = results
           ELSE /\ Len(results') = Len(results) + 1
                /\ results'[Len(results')].url = urls[idx]

====
